---- MODULE Spec2Model ----
(***************************************************************************)
(* Model of DeliveryAnalyzer (src/delivery_root_cause_analyzer.py): the    *)
(* dataset integrator, the root-cause feature engine, the filter layer and *)
(* the analytics queries.                                                  *)
(*                                                                         *)
(* Tables (pandas DataFrames) are records [cols, rows]: cols is the set of *)
(* column names, rows the sequence of rows, each row a function from       *)
(* column name to value.  Text values are sequences of one-character       *)
(* strings, timestamps are hours since 2024-01-01 00:00 (a Monday).        *)
(***************************************************************************)
EXTENDS Integers, Sequences, FiniteSets, TLC

VARIABLES
  data,           \* self.data: the tables load_all_data found
  integrated_df,  \* self.integrated_df
  pc,             \* how far the analyzer (or the engine run) has come
  filtered,       \* the value filter_data returned last (filtered_df)
  result,         \* the value the last analysis call returned
  df,             \* the table the feature engine works on
  runs,           \* runs of the feature engine on df
  first_df,       \* df as the first run left it
  use_perplexity, \* self.use_perplexity
  http,           \* the call of call_perplexity_api in progress
  grouped         \* the grouped frame compare_performance ranks

vars == <<data, integrated_df, pc, filtered, result, df, runs, first_df,
          use_perplexity, http, grouped>>

\* the state of the external-AI collaborator and of the ranking step
ext_vars == <<use_perplexity, http, grouped>>

----------------------------------------------------------------------------
(* Bounds of the model *)

MaxOrders == 2
MaxRuns == 2
MaxLateDays == 7
MaxAttempts == 4
MaxGroupSize == 10000

----------------------------------------------------------------------------
(* Missing values *)

\* pandas NaT: a missing or unparsable timestamp
NaT == -1
\* pandas NaN in a numeric column
NaN == -1
\* pandas NaN / None in an object (text) column
Null == <<"NaN">>
\* a raw CSV date cell that is not a date
BadDate == -2
\* self.integrated_df = None, a table that was not loaded
Absent == [cols |-> {}, rows |-> <<>>, loaded |-> FALSE]

HoursPerDay == 24

----------------------------------------------------------------------------
(* Text *)

UpperLetters == <<"A","B","C","D","E","F","G","H","I","J","K","L","M","N","O","P","Q","R","S","T","U","V","W","X","Y","Z">>
LowerLetters == <<"a","b","c","d","e","f","g","h","i","j","k","l","m","n","o","p","q","r","s","t","u","v","w","x","y","z">>

LowerChar(c) ==
  IF \E i \in DOMAIN UpperLetters : UpperLetters[i] = c
  THEN LowerLetters[CHOOSE i \in DOMAIN UpperLetters : UpperLetters[i] = c]
  ELSE c

\* str.lower()
str_lower(s) == IF s = Null THEN Null ELSE [i \in DOMAIN s |-> LowerChar(s[i])]

\* 'sep'.join(list)
RECURSIVE str_join(_, _)
str_join(sep, list) ==
  IF Len(list) = 0 THEN <<>>
  ELSE IF Len(list) = 1 THEN list[1]
  ELSE list[1] \o sep \o str_join(sep, Tail(list))

\* the alternatives of a regular expression: the pattern cut at every "|"
RECURSIVE RegexAlternatives(_)
RegexAlternatives(pat) ==
  IF \E i \in DOMAIN pat : pat[i] = "|"
  THEN LET i == CHOOSE k \in DOMAIN pat :
                   pat[k] = "|" /\ \A j \in 1..(k - 1) : pat[j] # "|"
       IN <<SubSeq(pat, 1, i - 1)>> \o RegexAlternatives(SubSeq(pat, i + 1, Len(pat)))
  ELSE <<pat>>

\* one pattern character against one text character ("." matches anything)
RegexCharMatch(p, c, ignorecase) ==
  \/ p = "."
  \/ IF ignorecase THEN LowerChar(p) = LowerChar(c) ELSE p = c

\* re.search(pat, s)
RegexSearch(pat, s, ignorecase) ==
  LET alts == RegexAlternatives(pat)
  IN \E a \in DOMAIN alts :
       \E i \in 1..(Len(s) + 1) :
         /\ i + Len(alts[a]) - 1 <= Len(s)
         /\ \A j \in DOMAIN alts[a] : RegexCharMatch(alts[a][j], s[i + j - 1], ignorecase)

\* Series.str.contains(pat, case=False, na=False)
str_contains(s, pat) == IF s = Null THEN FALSE ELSE RegexSearch(pat, s, TRUE)

\* plain containment of a literal text
HasSubstring(s, lit, ignorecase) ==
  /\ s # Null
  /\ \E i \in 1..(Len(s) + 1) :
       /\ i + Len(lit) - 1 <= Len(s)
       /\ \A j \in DOMAIN lit :
            IF ignorecase THEN LowerChar(lit[j]) = LowerChar(s[i + j - 1])
            ELSE lit[j] = s[i + j - 1]

----------------------------------------------------------------------------
(* Labels and patterns of the feature engine *)

OtherUnknown == <<"O","t","h","e","r","/","U","n","k","n","o","w","n">>
TrafficCongestion == <<"T","r","a","f","f","i","c"," ","C","o","n","g","e","s","t","i","o","n">>
WeatherDisruption == <<"W","e","a","t","h","e","r"," ","D","i","s","r","u","p","t","i","o","n">>
WarehouseOperations == <<"W","a","r","e","h","o","u","s","e"," ","O","p","e","r","a","t","i","o","n","s">>
AddressIssues == <<"A","d","d","r","e","s","s"," ","I","s","s","u","e","s">>
StockUnavailability == <<"S","t","o","c","k"," ","U","n","a","v","a","i","l","a","b","i","l","i","t","y">>
VehicleIssues == <<"V","e","h","i","c","l","e"," ","I","s","s","u","e","s">>
UnknownFailure == <<"U","n","k","n","o","w","n"," ","F","a","i","l","u","r","e">>
CustomerReturn == <<"C","u","s","t","o","m","e","r"," ","R","e","t","u","r","n">>
ProcessingDelay == <<"P","r","o","c","e","s","s","i","n","g"," ","D","e","l","a","y">>

pat_Traffic == <<"T","r","a","f","f","i","c","|","c","o","n","g","e","s","t","i","o","n">>
pat_Weather == <<"W","e","a","t","h","e","r","|","d","i","s","r","u","p","t","i","o","n">>
pat_Warehouse == <<"W","a","r","e","h","o","u","s","e","|","d","e","l","a","y">>
pat_Address == <<"a","d","d","r","e","s","s","|","A","d","d","r","e","s","s">>
pat_Stock == <<"S","t","o","c","k","|","s","t","o","c","k">>
pat_Vehicle == <<"V","e","h","i","c","l","e","|","b","r","e","a","k","d","o","w","n">>

\* faulty variant: the vehicle rule is applied before the warehouse rule
KeywordRules_vehicle_early ==
  << [pat |-> pat_Traffic,   label |-> TrafficCongestion],
     [pat |-> pat_Weather,   label |-> WeatherDisruption],
     [pat |-> pat_Vehicle,   label |-> VehicleIssues],
     [pat |-> pat_Warehouse, label |-> WarehouseOperations],
     [pat |-> pat_Address,   label |-> AddressIssues],
     [pat |-> pat_Stock,     label |-> StockUnavailability] >>

\* the keyword rules in the order the code applies them
KeywordRules ==
  << [pat |-> pat_Traffic,   label |-> TrafficCongestion],
     [pat |-> pat_Weather,   label |-> WeatherDisruption],
     [pat |-> pat_Warehouse, label |-> WarehouseOperations],
     [pat |-> pat_Address,   label |-> AddressIssues],
     [pat |-> pat_Stock,     label |-> StockUnavailability],
     [pat |-> pat_Vehicle,   label |-> VehicleIssues] >>

----------------------------------------------------------------------------
(* Tables *)

\* a row with column c set to v (df[c] = v adds the column when it is new)
SetCol(r, c, v) == [k \in (DOMAIN r) \cup {c} |-> IF k = c THEN v ELSE r[k]]

\* df[c] = F(row), row by row
WithCol(t, c, F(_)) ==
  [cols |-> t.cols \cup {c},
   rows |-> [i \in DOMAIN t.rows |-> SetCol(t.rows[i], c, F(t.rows[i]))],
   loaded |-> TRUE]

----------------------------------------------------------------------------
(* Root-cause feature engine: add_root_cause_features *)

\* pd.to_datetime(x, errors='coerce') of a raw cell
to_datetime(x) == IF x < 0 THEN NaT ELSE x

\* actual - promised, a Timedelta in hours (NaT when either side is NaT)
Timedelta(a, b) ==
  IF a = NaT \/ b = NaT THEN [null |-> TRUE, hours |-> 0]
  ELSE [null |-> FALSE, hours |-> a - b]

\* faulty variant: days rounded toward zero
dt_days_trunc(td) ==
  IF td.null THEN 0
  ELSE IF td.hours >= 0 THEN td.hours \div HoursPerDay
  ELSE 0 - ((0 - td.hours) \div HoursPerDay)

\* (...).dt.days followed by .fillna(0): whole days, rounded down
dt_days_fillna(td) == IF td.null THEN 0 ELSE td.hours \div HoursPerDay

delivery_delay_days(r) ==
  dt_days_fillna(Timedelta(r["actual_delivery_date"], r["promised_delivery_date"]))

\* faulty variant: an order without a status counts as pending
default_status_pending == "Pending"

\* line 189: the status every record gets when the column is missing
default_status == "Unknown"

StatusDelayed == {"Failed", "Returned", "Pending"}

\* faulty variant: Pending is not counted
is_delayed_any(r) == r["delivery_delay_days"] > 0 \/ r["status"] \in {"Failed", "Returned"}

is_delayed(r) == r["delivery_delay_days"] > 0 \/ r["status"] \in StatusDelayed

\* the keyword overwrites of lines 199-204, applied in order from rule k on
RECURSIVE ApplyKeywordRules(_, _, _)
ApplyKeywordRules(reason, cause, k) ==
  IF k > Len(KeywordRules) THEN cause
  ELSE ApplyKeywordRules(reason,
                         IF str_contains(reason, KeywordRules[k].pat)
                         THEN KeywordRules[k].label ELSE cause,
                         k + 1)

\* faulty variant: the keyword label is kept for a failed order
primary_root_cause_kw(r, hasReason) ==
  LET kw == IF hasReason THEN ApplyKeywordRules(r["failure_reason"], OtherUnknown, 1)
            ELSE OtherUnknown
  IN IF r["status"] = "Pending" THEN ProcessingDelay
     ELSE IF r["status"] = "Returned" THEN CustomerReturn
     ELSE IF r["status"] = "Failed" /\ kw = OtherUnknown
          THEN (IF r["failure_reason"] = Null THEN UnknownFailure ELSE r["failure_reason"])
     ELSE kw

primary_root_cause(r, hasReason) ==
  LET c0 == OtherUnknown
      c1 == IF hasReason THEN ApplyKeywordRules(r["failure_reason"], c0, 1) ELSE c0
      c2 == IF r["status"] = "Failed"
            THEN (IF r["failure_reason"] = Null THEN UnknownFailure ELSE r["failure_reason"])
            ELSE c1
      c3 == IF r["status"] = "Returned" THEN CustomerReturn ELSE c2
      c4 == IF r["status"] = "Pending" THEN ProcessingDelay ELSE c3
  IN c4

\* faulty variant: the delay tiers are applied after the status check
severity_delay_last(r) ==
  LET s1 == IF r["status"] = "Failed" THEN "Critical" ELSE "Low"
      s2 == IF r["delivery_delay_days"] > 2 THEN "Medium" ELSE s1
      s3 == IF r["delivery_delay_days"] > 5 THEN "High" ELSE s2
  IN s3

severity(r) ==
  LET s0 == "Low"
      s1 == IF r["delivery_delay_days"] > 2 THEN "Medium" ELSE s0
      s2 == IF r["delivery_delay_days"] > 5 THEN "High" ELSE s1
      s3 == IF r["status"] = "Failed" THEN "Critical" ELSE s2
  IN s3

DayNames == <<"Monday", "Tuesday", "Wednesday", "Thursday", "Friday", "Saturday", "Sunday">>

\* lengths of the months of 2024 and their names
MonthDays == <<31, 29, 31, 30, 31, 30, 31, 31, 30, 31, 30, 31>>
MonthNames == <<"January", "February", "March", "April", "May", "June", "July",
                "August", "September", "October", "November", "December">>

RECURSIVE MonthOf(_, _)
MonthOf(day, m) ==
  IF m >= Len(MonthDays) \/ day < MonthDays[m] THEN m
  ELSE MonthOf(day - MonthDays[m], m + 1)

\* Series.dt.hour, .dt.day_name(), .dt.month_name()
order_hour(r) == IF r["order_date"] = NaT THEN NaN ELSE r["order_date"] % HoursPerDay

order_day_of_week(r) ==
  IF r["order_date"] = NaT THEN "NaN"
  ELSE DayNames[((r["order_date"] \div HoursPerDay) % 7) + 1]

order_month(r) ==
  IF r["order_date"] = NaT THEN "NaN"
  ELSE MonthNames[MonthOf(r["order_date"] \div HoursPerDay, 1)]

DerivedCols == {"delivery_delay_days", "is_delayed", "primary_root_cause", "severity",
                "order_hour", "order_day_of_week", "order_month"}

\* faulty variant: the delay is added to a delay column that is already there
add_root_cause_features_acc(t) ==
  LET t1 == WithCol(t, "delivery_delay_days",
                    LAMBDA r : delivery_delay_days(r)
                               + (IF "delivery_delay_days" \in t.cols
                                  THEN r["delivery_delay_days"] ELSE 0))
      t2 == IF "status" \in t1.cols THEN t1 ELSE WithCol(t1, "status", LAMBDA r : default_status)
      t3 == WithCol(t2, "is_delayed", is_delayed)
      t4 == WithCol(t3, "primary_root_cause",
                    LAMBDA r : primary_root_cause(r, "failure_reason" \in t.cols))
      t5 == WithCol(t4, "severity", severity)
      t6 == WithCol(t5, "order_hour", order_hour)
      t7 == WithCol(t6, "order_day_of_week", order_day_of_week)
  IN WithCol(t7, "order_month", order_month)

add_root_cause_features(t) ==
  LET t1 == WithCol(t, "delivery_delay_days", delivery_delay_days)
      t2 == IF "status" \in t1.cols THEN t1 ELSE WithCol(t1, "status", LAMBDA r : default_status)
      t3 == WithCol(t2, "is_delayed", is_delayed)
      t4 == WithCol(t3, "primary_root_cause",
                    LAMBDA r : primary_root_cause(r, "failure_reason" \in t.cols))
      t5 == WithCol(t4, "severity", severity)
      t6 == WithCol(t5, "order_hour", order_hour)
      t7 == WithCol(t6, "order_day_of_week", order_day_of_week)
  IN WithCol(t7, "order_month", order_month)

\* lines 98-102: the date columns that exist are parsed, bad cells become NaT
DateColumns == {"order_date", "promised_delivery_date", "actual_delivery_date", "created_at"}

parse_dates(t) ==
  [cols |-> t.cols,
   rows |-> [i \in DOMAIN t.rows |->
               [k \in DOMAIN t.rows[i] |->
                  IF k \in DateColumns THEN to_datetime(t.rows[i][k]) ELSE t.rows[i][k]]],
   loaded |-> TRUE]

----------------------------------------------------------------------------
(* Dataset integrator: create_integrated_dataset *)

\* columns that hold text
TextCols == {"city", "failure_reason", "client_name", "warehouse_name", "gps_delay_notes",
             "notes", "event_type", "feedback_text", "primary_root_cause"}

\* columns that hold a short code or a name
LabelCols == {"status", "driver_name", "partner_company", "manager_name", "contact_person",
              "vehicle_number", "route_code", "sentiment", "traffic_condition",
              "weather_condition", "severity", "order_day_of_week", "order_month"}

\* a mean of numbers, kept exact: num / den, and NaN when den = 0
NoMean == [num |-> 0, den |-> 0]

\* the missing value a left join leaves in column c
NullOf(c) ==
  IF c \in TextCols THEN Null
  ELSE IF c \in LabelCols THEN "NaN"
  ELSE IF c = "rating" THEN NoMean
  ELSE NaN

RECURSIVE Flatten(_)
Flatten(ss) == IF Len(ss) = 0 THEN <<>> ELSE Head(ss) \o Flatten(Tail(ss))

\* table[[c1, c2, ...]]
Project(t, cs) ==
  [cols |-> cs,
   rows |-> [i \in DOMAIN t.rows |-> [c \in cs |-> t.rows[i][c]]],
   loaded |-> TRUE]

\* left.merge(right, on=key, how='left', suffixes=(lsuf, rsuf)): every left
\* row once per right row with an equal key (NaN keys are equal to each
\* other), or once with nulls; a column on both sides gets the suffixes
LeftMerge(left, right, key, lsuf, rsuf) ==
  LET overlap == (left.cols \cap right.cols) \ {key}
      LN(c) == IF c \in overlap THEN c \o lsuf ELSE c
      RN(c) == IF c \in overlap THEN c \o rsuf ELSE c
      rcols == right.cols \ {key}
      outcols == {LN(c) : c \in left.cols} \cup {RN(c) : c \in rcols}
      Combine(l, r) ==
        [n \in outcols |->
           IF \E c \in left.cols : LN(c) = n
           THEN l[CHOOSE c \in left.cols : LN(c) = n]
           ELSE r[CHOOSE c \in rcols : RN(c) = n]]
      NullRow == [c \in rcols |-> NullOf(c)]
      Joined(l) ==
        LET m == SelectSeq(right.rows, LAMBDA r : r[key] = l[key])
        IN IF Len(m) = 0 THEN <<Combine(l, NullRow)>>
           ELSE [j \in DOMAIN m |-> Combine(l, m[j])]
  IN [cols |-> outcols,
      rows |-> Flatten([i \in DOMAIN left.rows |-> Joined(left.rows[i])]),
      loaded |-> TRUE]

\* the distinct non-null values of a key column, ascending (groupby keys)
RECURSIVE SortedSeq(_)
SortedSeq(S) ==
  IF S = {} THEN <<>>
  ELSE LET m == CHOOSE x \in S : \A y \in S : x <= y
       IN <<m>> \o SortedSeq(S \ {m})

GroupKeys(t, key) == SortedSeq({t.rows[i][key] : i \in DOMAIN t.rows} \ {NaN})

\* the rows of one group, in table order
GroupRows(t, key, k) == SelectSeq(t.rows, LAMBDA r : r[key] = k)

\* 'first': the first non-null value of the column in the group
agg_first(g, c) ==
  LET nn == SelectSeq(g, LAMBDA r : r[c] # NullOf(c))
  IN IF Len(nn) = 0 THEN NullOf(c) ELSE nn[1][c]

CommaSpace == <<",", " ">>
BarSep == <<" ", "|", " ">>

\* lambda x: ', '.join(filter(lambda y: y and pd.notna(y), x)) if any(pd.notna(x)) else None
agg_join_notes(g, c) ==
  IF \A i \in DOMAIN g : g[i][c] = Null THEN Null
  ELSE LET kept == SelectSeq(g, LAMBDA r : r[c] # Null /\ r[c] # <<>>)
       IN str_join(CommaSpace, [i \in DOMAIN kept |-> kept[i][c]])

\* lambda x: ' | '.join(x); a null text makes join raise TypeError
agg_join_text_raises(g, c) == \E i \in DOMAIN g : g[i][c] = Null

agg_join_text(g, c) == str_join(BarSep, [i \in DOMAIN g |-> g[i][c]])

RECURSIVE SumCol(_, _)
SumCol(g, c) == IF Len(g) = 0 THEN 0 ELSE g[1][c] + SumCol(Tail(g), c)

RECURSIVE GCD(_, _)
GCD(a, b) == IF b = 0 THEN a ELSE GCD(b, a % b)

\* the exact fraction n / d in lowest terms
Frac(n, d) ==
  IF d = 0 THEN NoMean
  ELSE LET g == GCD(IF n < 0 THEN 0 - n ELSE n, d)
       IN [num |-> n \div g, den |-> d \div g]

\* 'mean' of a numeric column: the mean of its non-null values
agg_mean(g, c) ==
  LET nn == SelectSeq(g, LAMBDA r : r[c] # NaN)
  IN Frac(SumCol(nn, c), Len(nn))

\* lines 123-130
fleet_summary(t) ==
  LET ks == GroupKeys(t, "order_id")
  IN [cols |-> {"order_id", "driver_id", "vehicle_number", "route_code", "gps_delay_notes",
                "departure_time", "arrival_time"},
      rows |-> [n \in DOMAIN ks |->
                  LET g == GroupRows(t, "order_id", ks[n])
                  IN [order_id |-> ks[n],
                      driver_id |-> agg_first(g, "driver_id"),
                      vehicle_number |-> agg_first(g, "vehicle_number"),
                      route_code |-> agg_first(g, "route_code"),
                      gps_delay_notes |-> agg_join_notes(g, "gps_delay_notes"),
                      departure_time |-> agg_first(g, "departure_time"),
                      arrival_time |-> agg_first(g, "arrival_time")]],
      loaded |-> TRUE]

\* lines 143-148
warehouse_summary(t) ==
  LET ks == GroupKeys(t, "order_id")
  IN [cols |-> {"order_id", "picking_start", "picking_end", "dispatch_time", "notes"},
      rows |-> [n \in DOMAIN ks |->
                  LET g == GroupRows(t, "order_id", ks[n])
                  IN [order_id |-> ks[n],
                      picking_start |-> agg_first(g, "picking_start"),
                      picking_end |-> agg_first(g, "picking_end"),
                      dispatch_time |-> agg_first(g, "dispatch_time"),
                      notes |-> agg_join_notes(g, "notes")]],
      loaded |-> TRUE]

\* lines 154-158
external_summary(t) ==
  LET ks == GroupKeys(t, "order_id")
  IN [cols |-> {"order_id", "traffic_condition", "weather_condition", "event_type"},
      rows |-> [n \in DOMAIN ks |->
                  LET g == GroupRows(t, "order_id", ks[n])
                  IN [order_id |-> ks[n],
                      traffic_condition |-> agg_first(g, "traffic_condition"),
                      weather_condition |-> agg_first(g, "weather_condition"),
                      event_type |-> agg_join_notes(g, "event_type")]],
      loaded |-> TRUE]

\* lines 164-168
feedback_summary_raises(t) ==
  \E k \in {t.rows[i]["order_id"] : i \in DOMAIN t.rows} \ {NaN} :
    agg_join_text_raises(GroupRows(t, "order_id", k), "feedback_text")

feedback_summary(t) ==
  LET ks == GroupKeys(t, "order_id")
  IN [cols |-> {"order_id", "feedback_text", "sentiment", "rating"},
      rows |-> [n \in DOMAIN ks |->
                  LET g == GroupRows(t, "order_id", ks[n])
                  IN [order_id |-> ks[n],
                      feedback_text |-> agg_join_text(g, "feedback_text"),
                      sentiment |-> agg_first(g, "sentiment"),
                      rating |-> agg_mean(g, "rating")]],
      loaded |-> TRUE]

\* line 107-108: groupby('city')['warehouse_id'].first().to_dict(), then map
warehouse_mapping(wt, city) ==
  IF city = Null THEN NaN
  ELSE LET g == SelectSeq(wt.rows, LAMBDA r : r["city"] = city)
       IN IF Len(g) = 0 THEN NaN ELSE agg_first(g, "warehouse_id")

\* the steps of create_integrated_dataset after the orders check
step_parse(d) == parse_dates(d.orders)

step_warehouses(d, t) ==
  IF d.warehouses.loaded
  THEN LeftMerge(WithCol(t, "warehouse_id",
                         LAMBDA r : warehouse_mapping(d.warehouses, r["city"])),
                 Project(d.warehouses,
                         {"warehouse_id", "warehouse_name", "capacity", "manager_name"}),
                 "warehouse_id", "_x", "_y")
  ELSE t

step_clients(d, t) ==
  IF d.clients.loaded
  THEN LeftMerge(t, Project(d.clients, {"client_id", "client_name", "contact_person"}),
                 "client_id", "_x", "_y")
  ELSE t

step_fleet(d, t) ==
  IF d.fleet_logs.loaded
  THEN LeftMerge(t, fleet_summary(d.fleet_logs), "order_id", "_x", "_y")
  ELSE t

step_drivers(d, t) ==
  IF d.drivers.loaded /\ "driver_id" \in t.cols
  THEN LeftMerge(t, Project(d.drivers,
                            {"driver_id", "driver_name", "partner_company", "status"}),
                 "driver_id", "_x", "_y")
  ELSE t

step_warehouse_logs(d, t) ==
  IF d.warehouse_logs.loaded
  THEN LeftMerge(t, warehouse_summary(d.warehouse_logs), "order_id", "", "_warehouse")
  ELSE t

step_external(d, t) ==
  IF d.external_factors.loaded
  THEN LeftMerge(t, external_summary(d.external_factors), "order_id", "_x", "_y")
  ELSE t

step_feedback(d, t) ==
  IF d.feedback.loaded
  THEN LeftMerge(t, feedback_summary(d.feedback), "order_id", "_x", "_y")
  ELSE t

\* the table handed to the feature engine (line 173)
joined_table(d) ==
  step_feedback(d,
    step_external(d,
      step_warehouse_logs(d,
        step_drivers(d,
          step_fleet(d,
            step_clients(d,
              step_warehouses(d, step_parse(d))))))))

\* create_integrated_dataset: the value left in self.integrated_df, or the
\* exception it raises
create_integrated_dataset(d) ==
  IF ~d.orders.loaded THEN [kind |-> "raise", error |-> "ValueError", df |-> Absent]
  ELSE IF d.feedback.loaded /\ feedback_summary_raises(d.feedback)
  THEN [kind |-> "raise", error |-> "TypeError", df |-> Absent]
  ELSE [kind |-> "ok", error |-> "", df |-> add_root_cause_features(joined_table(d))]

----------------------------------------------------------------------------
(* Filter layer: filter_data *)

\* a filter date that is None
NoDate == -1

\* pd.to_datetime('YYYY-MM-DD'): midnight of day number d of 2024
filter_datetime(d) == d * HoursPerDay

\* 'k' in filters and filters['k']
HasFilter(f, k) ==
  /\ k \in DOMAIN f
  /\ IF k \in {"date_from", "date_to"} THEN f[k] # NoDate ELSE Len(f[k]) > 0

Bar == <<"|">>

Keep(t, P(_)) == [cols |-> t.cols, rows |-> SelectSeq(t.rows, P), loaded |-> TRUE]

filter_cities(t, f) ==
  IF HasFilter(f, "cities")
  THEN Keep(t, LAMBDA r : /\ r["city"] # Null
                          /\ \E i \in DOMAIN f["cities"] :
                               str_lower(r["city"]) = str_lower(f["cities"][i]))
  ELSE t

filter_date_from(t, f) ==
  IF HasFilter(f, "date_from")
  THEN Keep(t, LAMBDA r : r["order_date"] # NaT
                          /\ r["order_date"] >= filter_datetime(f["date_from"]))
  ELSE t

filter_date_to(t, f) ==
  IF HasFilter(f, "date_to")
  THEN Keep(t, LAMBDA r : r["order_date"] # NaT
                          /\ r["order_date"] <= filter_datetime(f["date_to"]))
  ELSE t

filter_clients(t, f) ==
  IF HasFilter(f, "clients")
  THEN Keep(t, LAMBDA r : str_contains(str_lower(r["client_name"]),
                                       str_join(Bar, f["clients"])))
  ELSE t

filter_warehouses(t, f) ==
  IF HasFilter(f, "warehouses")
  THEN Keep(t, LAMBDA r : str_contains(str_lower(r["warehouse_name"]),
                                       str_join(Bar, f["warehouses"])))
  ELSE t

\* a column the filter reads is not in the table: KeyError
filter_data_raises(t, f) ==
  \/ HasFilter(f, "clients") /\ "client_name" \notin t.cols
  \/ HasFilter(f, "warehouses") /\ "warehouse_name" \notin t.cols

\* filter_data(filters): the table returned, or the exception raised
filter_data(t, f) ==
  IF filter_data_raises(t, f) THEN [kind |-> "raise", error |-> "KeyError", df |-> Absent]
  ELSE [kind |-> "table", error |-> "",
        df |-> filter_warehouses(
                 filter_clients(
                   filter_date_to(
                     filter_date_from(
                       filter_cities(t, f), f), f), f), f)]

\* faulty variant: the filtered table is stored back into self.integrated_df
integrated_df_after_filter_stored(t, f) ==
  IF filter_data_raises(t, f) THEN t ELSE filter_data(t, f).df

\* self.integrated_df after filter_data: the filter works on a copy
integrated_df_after_filter(t, f) == t

----------------------------------------------------------------------------
(* Analytics engine: explain_delivery_causes and compare_performance *)

\* x.round(2) of the rational n / d, in hundredths
Round2(n, d) == (200 * n + d) \div (2 * d)

\* the sum of a column of exact means (NaN entries skipped), as a fraction
RECURSIVE SumMeans(_, _)
SumMeans(g, c) ==
  IF Len(g) = 0 THEN [num |-> 0, den |-> 1]
  ELSE LET rest == SumMeans(Tail(g), c)
           v == g[1][c]
       IN IF v.den = 0 THEN rest
          ELSE Frac(v.num * rest.den + rest.num * v.den, v.den * rest.den)

\* 'mean' of the rating column, rounded, in hundredths (NaN when no rating)
mean_rating_round2(g) ==
  LET nn == SelectSeq(g, LAMBDA r : r["rating"].den # 0)
      sm == SumMeans(nn, "rating")
  IN IF Len(nn) = 0 THEN NaN ELSE Round2(sm.num, sm.den * Len(nn))

\* the distinct non-null values of column c, as a set
GroupValues(rows, c) == {rows[i][c] : i \in DOMAIN rows} \ {NullOf(c)}

CountIf(rows, P(_)) == Len(SelectSeq(rows, P))

\* all orderings of a set of entries
Orderings(S) ==
  {q \in [1..Cardinality(S) -> S] : \A i, j \in 1..Cardinality(S) : i # j => q[i] # q[j]}

\* sort_values(by, ascending=False): every ordering with non-increasing
\* key is a possible outcome (the order among equal keys is not specified);
\* the orderings are built from their first entry, a maximal one, onward
RECURSIVE SortedDescending(_, _)
SortedDescending(S, by) ==
  IF S = {} THEN {<<>>}
  ELSE UNION {{<<m>> \o q : q \in SortedDescending(S \ {m}, by)} :
              m \in {x \in S : \A y \in S : x[by] >= y[by]}}

\* faulty variant: the last n entries are kept
head_last(q, n) == SubSeq(q, IF Len(q) < n THEN 1 ELSE Len(q) - n + 1, Len(q))

\* .head(n)
head(q, n) == SubSeq(q, 1, IF Len(q) < n THEN Len(q) ELSE n)

\* lines 421-424
problem_rows(t) ==
  SelectSeq(t.rows, LAMBDA r : r["is_delayed"] = TRUE \/ r["status"] \in {"Failed", "Returned"})

\* lines 430-438: one entry per root cause
cause_analysis(prob) ==
  {LET g == SelectSeq(prob, LAMBDA r : r["primary_root_cause"] = c)
   IN [cause |-> c,
       failure_count |-> CountIf(g, LAMBDA r : r["order_id"] # NaN),
       avg_delay_days |-> Round2(SumCol(g, "delivery_delay_days"), Len(g)),
       lost_revenue |-> SumCol(g, "amount"),
       avg_rating |-> mean_rating_round2(g),
       critical_cases |-> CountIf(g, LAMBDA r : r["severity"] = "Critical")] :
   c \in GroupValues(prob, "primary_root_cause")}

\* line 445
worst_days(prob) ==
  {[day |-> d,
    count |-> CountIf(prob, LAMBDA r : r["order_day_of_week"] = d /\ r["order_id"] # NaN)] :
   d \in GroupValues(prob, "order_day_of_week")}

\* lines 449-452
city_impact(prob) ==
  {LET g == SelectSeq(prob, LAMBDA r : r["city"] = c)
   IN [city |-> c,
       order_id |-> CountIf(g, LAMBDA r : r["order_id"] # NaN),
       amount |-> SumCol(g, "amount")] :
   c \in GroupValues(prob, "city")}

\* line 457
warehouse_performance(prob) ==
  {[warehouse_name |-> w,
    count |-> CountIf(prob, LAMBDA r : r["warehouse_name"] = w /\ r["order_id"] # NaN)] :
   w \in GroupValues(prob, "warehouse_name")}

NoIssuesMessage == [kind |-> "message"]

DefaultLimit == 10

\* the columns the aggregation of explain_delivery_causes names
explain_raises(t) ==
  /\ Len(problem_rows(t)) > 0
  /\ ~({"order_id", "delivery_delay_days", "amount", "rating", "severity"} \subseteq t.cols)

\* explain_delivery_causes(filtered_df, limit): the possible return values
explain_delivery_causes(t, limit) ==
  LET prob == problem_rows(t)
  IN IF Len(prob) = 0 THEN {NoIssuesMessage}
     ELSE IF explain_raises(t) THEN {[kind |-> "raise", error |-> "KeyError"]}
     ELSE {[kind |-> "breakdown",
            root_cause_analysis |-> head(ca, limit),
            total_affected_orders |-> Len(prob),
            total_lost_revenue |-> SumCol(prob, "amount"),
            average_delay |-> Frac(SumCol(prob, "delivery_delay_days"), Len(prob)),
            worst_days |-> head(wd, 3),
            most_affected_cities |-> head(ci, 5),
            has_warehouses |-> "warehouse_name" \in t.cols,
            problematic_warehouses |-> wp] :
           ca \in SortedDescending(cause_analysis(prob), "failure_count"),
           wd \in SortedDescending(worst_days(prob), "count"),
           ci \in SortedDescending(city_impact(prob), "order_id"),
           wp \in IF "warehouse_name" \in t.cols
                  THEN {head(q, 5) : q \in SortedDescending(warehouse_performance(prob), "count")}
                  ELSE {<<>>}}

\* faulty variant: only late deliveries are counted as delayed
comparison_stats_late_only(t, field) ==
  {LET g == SelectSeq(t.rows, LAMBDA r : r[field] = v)
   IN [value |-> v,
       total_orders |-> CountIf(g, LAMBDA r : r["order_id"] # NaN),
       delayed_orders |-> CountIf(g, LAMBDA r : r["delivery_delay_days"] > 0),
       avg_delay_days |-> Round2(SumCol(g, "delivery_delay_days"), Len(g)),
       total_revenue |-> SumCol(g, "amount"),
       avg_rating |-> mean_rating_round2(g)] :
   v \in GroupValues(t.rows, field)}

\* lines 474-482: one entry per value of the comparison field
comparison_stats(t, field) ==
  {LET g == SelectSeq(t.rows, LAMBDA r : r[field] = v)
   IN [value |-> v,
       total_orders |-> CountIf(g, LAMBDA r : r["order_id"] # NaN),
       delayed_orders |-> CountIf(g, LAMBDA r : r["is_delayed"] = TRUE),
       avg_delay_days |-> Round2(SumCol(g, "delivery_delay_days"), Len(g)),
       total_revenue |-> SumCol(g, "amount"),
       avg_rating |-> mean_rating_round2(g)] :
   v \in GroupValues(t.rows, field)}

\* line 483: (delayed_orders / total_orders * 100).round(2), in hundredths
delay_rate(delayed_orders, total_orders) == Round2(delayed_orders * 100, total_orders)

\* lines 483-485: the delay_rate column is added and the frame sorted on it
rank_by_delay_rate(frame) ==
  SortedDescending({[value |-> e.value,
                     total_orders |-> e.total_orders,
                     delayed_orders |-> e.delayed_orders,
                     avg_delay_days |-> e.avg_delay_days,
                     total_revenue |-> e.total_revenue,
                     avg_rating |-> e.avg_rating,
                     delay_rate |-> delay_rate(e.delayed_orders, e.total_orders)] :
                    e \in frame},
                   "delay_rate")

compare_raises(t) ==
  ~({"order_id", "is_delayed", "delivery_delay_days", "amount", "rating"} \subseteq t.cols)

\* faulty variant: the grouping is attempted without looking for the column
compare_performance_unchecked(t, field) ==
  IF field \notin t.cols \/ compare_raises(t) THEN {[kind |-> "raise", error |-> "KeyError"]}
  ELSE {[kind |-> "comparison", field |-> field, entries |-> q] :
        q \in rank_by_delay_rate(comparison_stats(t, field))}

\* compare_performance(filtered_df, comparison_field): the possible return values
compare_performance(t, field) ==
  IF field \notin t.cols THEN {[kind |-> "error", field |-> field]}
  ELSE IF compare_raises(t) THEN {[kind |-> "raise", error |-> "KeyError"]}
  ELSE {[kind |-> "comparison", field |-> field, entries |-> q] :
        q \in rank_by_delay_rate(comparison_stats(t, field))}

----------------------------------------------------------------------------
(* External-AI collaborator: call_perplexity_api *)

DefaultMaxRetries == 3

\* what one requests.post can come back with: a response with a status
\* code, or a requests.RequestException
Response(code) == [kind |-> "response", status |-> code]
RequestException == [kind |-> "exception", status |-> 0]

\* the value of a call: the content of the completion, or None
ApiContent == "content"
ApiNone == "None"

\* faulty variant: every answer other than 200 is retried
attempt_outcome_retry_all(answer) ==
  IF answer.kind = "exception" THEN "continue"
  ELSE IF answer.status = 200 THEN "return_content"
  ELSE "continue"

\* lines 247-270: what one pass through the loop body does with the answer
attempt_outcome(answer) ==
  IF answer.kind = "exception" THEN "continue"
  ELSE IF answer.status = 200 THEN "return_content"
  ELSE IF answer.status = 429 THEN "continue"
  ELSE "return_none"

\* lines 225-226 and 246: the call before its first attempt
api_enter(enabled, max_retries) ==
  IF ~enabled \/ max_retries <= 0
  THEN [kind |-> "returned", max_retries |-> max_retries, log |-> <<>>, value |-> ApiNone]
  ELSE [kind |-> "calling", max_retries |-> max_retries, log |-> <<>>, value |-> ApiNone]

\* one pass through the loop: the attempt is made, its answer handled, and
\* the loop left at a return or when range(max_retries) is exhausted
api_attempt(h, answer) ==
  LET log == Append(h.log, answer)
      out == attempt_outcome(answer)
  IN IF out = "return_content"
     THEN [h EXCEPT !.kind = "returned", !.log = log, !.value = ApiContent]
     ELSE IF out = "return_none" \/ Len(log) >= h.max_retries
     THEN [h EXCEPT !.kind = "returned", !.log = log, !.value = ApiNone]
     ELSE [h EXCEPT !.log = log]

\* call_perplexity_api(prompt, max_retries) against a server that gives the
\* answers in the given order: the finished call
RECURSIVE api_run(_, _)
api_run(h, answers) ==
  IF h.kind = "returned" THEN h
  ELSE api_run(api_attempt(h, Head(answers)), Tail(answers))

call_perplexity_api(enabled, answers, max_retries) ==
  api_run(api_enter(enabled, max_retries), answers)

----------------------------------------------------------------------------
(* Query layer: parse_natural_language_query and process_query *)

RankLimit == 5

\* 'lit' in s
str_in(lit, s) ==
  \E i \in 1..(Len(s) + 1) :
    /\ i + Len(lit) - 1 <= Len(s)
    /\ \A j \in DOMAIN lit : lit[j] = s[i + j - 1]

\* str.strip()
RECURSIVE str_strip(_)
str_strip(s) ==
  IF Len(s) = 0 THEN s
  ELSE IF s[1] = " " THEN str_strip(Tail(s))
  ELSE IF s[Len(s)] = " " THEN str_strip(SubSeq(s, 1, Len(s) - 1))
  ELSE s

Digits == {"0", "1", "2", "3", "4", "5", "6", "7", "8", "9"}

\* the character classes \s, [a-z] and \d
InClass(c, cls) ==
  IF cls = "space" THEN c = " "
  ELSE IF cls = "lower" THEN \E i \in DOMAIN LowerLetters : LowerLetters[i] = c
  ELSE IF cls = "digit" THEN c \in Digits
  ELSE FALSE

\* the first position from i on whose character is not of the class
RECURSIVE RunEnd(_, _, _)
RunEnd(s, i, cls) ==
  IF i <= Len(s) /\ InClass(s[i], cls) THEN RunEnd(s, i + 1, cls) ELSE i

\* re.findall(r'word\s+([a-z]+)', s), or r'word\s+([a-z]+|\d+)' with digits,
\* scanning from position i
RECURSIVE re_findall(_, _, _, _)
re_findall(word, s, i, digits) ==
  IF i + Len(word) - 1 > Len(s) THEN <<>>
  ELSE LET a == i + Len(word)
           b == RunEnd(s, a, "space")
           cls == IF b <= Len(s) /\ InClass(s[b], "lower") THEN "lower"
                  ELSE IF digits /\ b <= Len(s) /\ InClass(s[b], "digit") THEN "digit"
                  ELSE "none"
           e == RunEnd(s, b, cls)
       IN IF SubSeq(s, i, a - 1) = word /\ b > a /\ e > b
          THEN <<SubSeq(s, b, e - 1)>> \o re_findall(word, s, e, digits)
          ELSE re_findall(word, s, i + 1, digits)

\* line 364
KnownCities == <<<<"a","h","m","e","d","a","b","a","d">>, <<"m","u","m","b","a","i">>, <<"d","e","l","h","i">>, <<"b","a","n","g","a","l","o","r","e">>, <<"c","h","e","n","n","a","i">>, <<"p","u","n","e">>, <<"s","u","r","a","t">>, <<"c","o","i","m","b","a","t","o","r","e">>, <<"m","y","s","u","r","u">>, <<"n","a","g","p","u","r">>>>

w_client == <<"c","l","i","e","n","t">>
w_warehouse == <<"w","a","r","e","h","o","u","s","e">>
w_yesterday == <<"y","e","s","t","e","r","d","a","y">>
w_last_week == <<"l","a","s","t"," ","w","e","e","k">>
w_last_month == <<"l","a","s","t"," ","m","o","n","t","h">>

ExplainWords == <<<<"w","h","y">>, <<"e","x","p","l","a","i","n">>, <<"r","e","a","s","o","n","s">>, <<"c","a","u","s","e","s">>>>
CompareWords == <<<<"c","o","m","p","a","r","e">>, <<"c","o","m","p","a","r","i","s","o","n">>>>
PredictWords == <<<<"p","r","e","d","i","c","t">>, <<"f","o","r","e","c","a","s","t">>, <<"e","x","p","e","c","t">>, <<"p","r","e","p","a","r","e">>>>
RankWords == <<<<"t","o","p">>, <<"m","o","s","t">>, <<"h","i","g","h","e","s","t">>>>

AnyWordIn(ws, q) == \E i \in DOMAIN ws : str_in(ws[i], q)

\* lines 376-384
intent_of(q) ==
  IF AnyWordIn(ExplainWords, q) THEN "explain_causes"
  ELSE IF AnyWordIn(CompareWords, q) THEN "compare"
  ELSE IF AnyWordIn(PredictWords, q) THEN "predict"
  ELSE IF AnyWordIn(RankWords, q) THEN "rank"
  ELSE "unknown"

\* parse_query_rule_based(query)
parse_query_rule_based(query) ==
  LET q == str_strip(str_lower(query))
  IN [kind |-> "parsed",
      intent |-> intent_of(q),
      cities |-> SelectSeq(KnownCities, LAMBDA c : str_in(c, q)),
      clients |-> re_findall(w_client, q, 1, FALSE),
      warehouses |-> re_findall(w_warehouse, q, 1, TRUE),
      ai_enhanced |-> FALSE]

\* parse_query_with_perplexity(query): None, the parsed answer, or the
\* KeyError of line 294 when the integrated table has no client_name column;
\* env.completion is what the model answers when a call succeeds
parse_query_with_perplexity(t, query, env) ==
  IF "client_name" \notin t.cols THEN [kind |-> "raise", error |-> "KeyError"]
  ELSE IF call_perplexity_api(TRUE, env.parse, DefaultMaxRetries).value = ApiNone
  THEN [kind |-> "none"]
  ELSE IF env.completion.kind # "json" THEN [kind |-> "none"]
  ELSE [kind |-> "parsed",
        intent |-> env.completion.intent,
        cities |-> env.completion.cities,
        clients |-> env.completion.clients,
        warehouses |-> env.completion.warehouses,
        ai_enhanced |-> TRUE]

\* parse_natural_language_query(query)
parse_natural_language_query(t, enabled, query, env) ==
  IF enabled /\ parse_query_with_perplexity(t, query, env).kind # "none"
  THEN parse_query_with_perplexity(t, query, env)
  ELSE parse_query_rule_based(query)

\* lines 654-674: the filter specification built from the parsed query;
\* today is the day number of datetime.now()
build_filters(parsed, query, today) ==
  (IF Len(parsed.cities) > 0 THEN [cities |-> parsed.cities] ELSE <<>>)
  @@ (IF Len(parsed.clients) > 0 THEN [clients |-> parsed.clients] ELSE <<>>)
  @@ (IF Len(parsed.warehouses) > 0 THEN [warehouses |-> parsed.warehouses] ELSE <<>>)
  @@ (IF str_in(w_yesterday, query) THEN [date_from |-> today - 1, date_to |-> today - 1]
      ELSE IF str_in(w_last_week, query) THEN [date_from |-> today - 7]
      ELSE IF str_in(w_last_month, query) THEN [date_from |-> today - 30]
      ELSE <<>>)

\* lines 681-692: the analysis the intent selects
run_analysis(ft, parsed) ==
  IF parsed.intent = "explain_causes" THEN explain_delivery_causes(ft, DefaultLimit)
  ELSE IF parsed.intent = "compare"
  THEN (IF Len(parsed.cities) > 1 THEN compare_performance(ft, "city")
        ELSE compare_performance(ft, "warehouse_name"))
  ELSE IF parsed.intent = "rank" THEN explain_delivery_causes(ft, RankLimit)
  ELSE explain_delivery_causes(ft, DefaultLimit)

\* one line of the rule-based recommendations
Recommendation(id, day, city) == [id |-> id, day |-> day, city |-> city]

\* lines 558-591: the keyword looked for in the top cause and the advice
\* it selects, in the order of the elif chain
CauseAdvice ==
  << [word |-> <<"t","r","a","f","f","i","c">>,
      ids |-> <<"routes_avoid_peak_traffic", "real_time_traffic_monitoring",
                "alternative_time_slots">>],
     [word |-> <<"w","e","a","t","h","e","r">>,
      ids |-> <<"weather_contingency_plans", "weather_appropriate_vehicles",
                "proactive_weather_communication">>],
     [word |-> <<"w","a","r","e","h","o","u","s","e">>,
      ids |-> <<"optimize_warehouse_picking", "better_inventory_management",
                "increase_peak_staffing">>],
     [word |-> <<"a","d","d","r","e","s","s">>,
      ids |-> <<"address_verification", "train_drivers_navigation",
                "update_incorrect_addresses">>],
     [word |-> <<"s","t","o","c","k">>,
      ids |-> <<"improve_demand_forecasting", "real_time_stock_visibility",
                "stock_replenishment_alerts">>] >>

\* max(d.keys(), key=...): the first entry, in dict order, with the largest key
first_max(q, by) ==
  CHOOSE i \in DOMAIN q :
    /\ \A j \in DOMAIN q : q[j][by] <= q[i][by]
    /\ \A j \in 1..(i - 1) : q[j][by] < q[i][by]

\* lines 551-591
cause_recommendations(res) ==
  IF res.kind = "breakdown" /\ Len(res.root_cause_analysis) > 0
  THEN LET top == res.root_cause_analysis[first_max(res.root_cause_analysis, "failure_count")]
           hit == {k \in DOMAIN CauseAdvice : str_in(CauseAdvice[k].word, str_lower(top.cause))}
       IN IF hit = {} THEN <<>>
          ELSE LET k == CHOOSE a \in hit : \A b \in hit : a <= b
               IN [n \in DOMAIN CauseAdvice[k].ids |->
                     Recommendation(CauseAdvice[k].ids[n], "", <<>>)]
  ELSE <<>>

\* lines 593-605; max() of an empty dict raises ValueError
insight_recommendations_raises(res) ==
  res.kind = "breakdown" /\ (Len(res.worst_days) = 0 \/ Len(res.most_affected_cities) = 0)

insight_recommendations(res) ==
  IF res.kind = "breakdown"
  THEN << Recommendation("focus_on_day", res.worst_days[first_max(res.worst_days, "count")].day,
                         <<>>),
          Recommendation("prioritize_city", "",
                         res.most_affected_cities[first_max(res.most_affected_cities,
                                                            "order_id")].city) >>
  ELSE <<>>

\* generate_rule_based_recommendations(analysis_results)
generate_rule_based_recommendations(res) ==
  IF insight_recommendations_raises(res) THEN [kind |-> "raise", error |-> "ValueError"]
  ELSE [kind |-> "ok", source |-> "rule_based",
        items |-> cause_recommendations(res) \o insight_recommendations(res)]

\* generate_recommendations(analysis_results)
generate_recommendations(enabled, res, env) ==
  IF enabled /\ call_perplexity_api(TRUE, env.recs, DefaultMaxRetries).value = ApiContent
  THEN [kind |-> "ok", source |-> "perplexity_ai", items |-> <<>>]
  ELSE generate_rule_based_recommendations(res)

\* lines 698-700 with generate_executive_summary
executive_summary(enabled, env) ==
  IF ~enabled THEN "None"
  ELSE IF call_perplexity_api(TRUE, env.summary, DefaultMaxRetries).value = ApiContent
  THEN "summary"
  ELSE "unable_to_generate"

Raised(e) == [kind |-> "raise", error |-> e]

\* lines 694-718: the response built around one analysis result
build_response(enabled, query, parsed, filters, res, env) ==
  IF res.kind = "raise" THEN Raised(res.error)
  ELSE IF generate_recommendations(enabled, res, env).kind = "raise"
  THEN Raised(generate_recommendations(enabled, res, env).error)
  ELSE [kind |-> "response",
        query |-> query,
        analysis_type |-> parsed.intent,
        filters_applied |-> filters,
        results |-> res,
        recommendations |-> [source |-> generate_recommendations(enabled, res, env).source,
                             items |-> generate_recommendations(enabled, res, env).items],
        executive_summary |-> executive_summary(enabled, env),
        ai_enhanced |-> enabled]

\* process_query(query) on the integrated table t: the possible responses,
\* or the exception that leaves the call
process_query(t, enabled, query, env, today) ==
  LET parsed == parse_natural_language_query(t, enabled, query, env)
  IN IF parsed.kind = "raise" THEN {Raised(parsed.error)}
     ELSE LET filters == build_filters(parsed, query, today)
              fd == filter_data(t, filters)
          IN IF fd.kind = "raise" THEN {Raised(fd.error)}
             ELSE {build_response(enabled, query, parsed, filters, res, env) :
                     res \in run_analysis(fd.df, parsed)}

----------------------------------------------------------------------------
(* Source tables the loader can find *)

Mumbai == <<"M","u","m","b","a","i">>
Delhi == <<"D","e","l","h","i">>
Pune == <<"P","u","n","e">>
Acme == <<"A","c","m","e">>
Bolt == <<"B","o","l","t">>
BoltLtd == <<"B","o","l","t"," ","L","t","d">>
CentralHub == <<"C","e","n","t","r","a","l"," ","H","u","b">>
NorthDepot == <<"N","o","r","t","h"," ","D","e","p","o","t">>
NorthAnnex == <<"N","o","r","t","h"," ","A","n","n","e","x">>
txt_jam == <<"j","a","m">>
txt_short_staff == <<"s","h","o","r","t"," ","s","t","a","f","f">>
txt_strike == <<"s","t","r","i","k","e">>
txt_late == <<"l","a","t","e">>
txt_rude == <<"r","u","d","e">>
txt_ok == <<"o","k">>
StockOut == <<"S","t","o","c","k"," ","o","u","t">>
WeatherDelay == <<"W","e","a","t","h","e","r"," ","d","e","l","a","y">>
Refused == <<"R","e","f","u","s","e","d">>
VehicleDelay == <<"V","e","h","i","c","l","e"," ","d","e","l","a","y">>
WrongADDRESS == <<"w","r","o","n","g"," ","A","D","D","R","E","S","S">>
TrafficInBadWeather == <<"T","r","a","f","f","i","c"," ","i","n"," ","b","a","d"," ","w","e","a","t","h","e","r">>

\* 2024-01-10 00:00 and 2024-01-13 00:00, in hours since 2024-01-01 00:00
Jan10 == (10 - 1) * HoursPerDay
Jan13 == (13 - 1) * HoursPerDay

OrderCols == {"order_id", "client_id", "city", "order_date", "promised_delivery_date",
              "actual_delivery_date", "status", "failure_reason", "amount"}

\* three orders: a failed one, a late delivered one, one delivered early
OrderProfiles == {"failed", "late", "early"}

OrderRow(id, profile) ==
  CASE profile = "failed" ->
         [order_id |-> id, client_id |-> 1, city |-> Mumbai, order_date |-> Jan10 + 9,
          promised_delivery_date |-> Jan10, actual_delivery_date |-> NaN,
          status |-> "Failed", failure_reason |-> StockOut, amount |-> 100]
    [] profile = "late" ->
         [order_id |-> id, client_id |-> 2, city |-> Delhi, order_date |-> Jan13,
          promised_delivery_date |-> Jan10, actual_delivery_date |-> Jan13,
          status |-> "Delivered", failure_reason |-> WeatherDelay, amount |-> 250]
    [] OTHER ->
         [order_id |-> id, client_id |-> 3, city |-> Pune, order_date |-> Jan10,
          promised_delivery_date |-> Jan13, actual_delivery_date |-> Jan10,
          status |-> "Delivered", failure_reason |-> Null, amount |-> 40]

OrderTables ==
  {[cols |-> OrderCols, rows |-> [i \in 1..n |-> OrderRow(i, ps[i])], loaded |-> TRUE] :
     n \in 1..MaxOrders, ps \in [1..MaxOrders -> OrderProfiles]}

Table(cs, rs) == [cols |-> cs, rows |-> rs, loaded |-> TRUE]

\* Delhi has two warehouses, Pune none
WarehouseTables ==
  {Table({"warehouse_id", "warehouse_name", "city", "capacity", "manager_name"},
         << [warehouse_id |-> 1, warehouse_name |-> CentralHub, city |-> Mumbai,
             capacity |-> 500, manager_name |-> "Rao"],
            [warehouse_id |-> 2, warehouse_name |-> NorthDepot, city |-> Delhi,
             capacity |-> 300, manager_name |-> "Sen"],
            [warehouse_id |-> 3, warehouse_name |-> NorthAnnex, city |-> Delhi,
             capacity |-> 100, manager_name |-> "Das"] >>)}

\* client 2 is listed twice, client 3 not at all
ClientTables ==
  {Table({"client_id", "client_name", "contact_person"},
         << [client_id |-> 1, client_name |-> Acme, contact_person |-> "Ann"],
            [client_id |-> 2, client_name |-> Bolt, contact_person |-> "Bob"],
            [client_id |-> 2, client_name |-> BoltLtd, contact_person |-> "Bea"] >>)}

\* order 1 has two fleet log rows, order 2 one
FleetLogTables ==
  {Table({"order_id", "driver_id", "vehicle_number", "route_code", "gps_delay_notes",
          "departure_time", "arrival_time"},
         << [order_id |-> 1, driver_id |-> NaN, vehicle_number |-> "MH01", route_code |-> "R1",
             gps_delay_notes |-> txt_jam, departure_time |-> 5, arrival_time |-> 9],
            [order_id |-> 1, driver_id |-> 7, vehicle_number |-> "MH02", route_code |-> "R2",
             gps_delay_notes |-> Null, departure_time |-> 6, arrival_time |-> NaN],
            [order_id |-> 2, driver_id |-> 8, vehicle_number |-> "DL05", route_code |-> "NaN",
             gps_delay_notes |-> Null, departure_time |-> 7, arrival_time |-> 11] >>)}

DriverTables ==
  {Table({"driver_id", "driver_name", "partner_company", "status"},
         << [driver_id |-> 7, driver_name |-> "Dev", partner_company |-> "FastCo",
             status |-> "Active"],
            [driver_id |-> 8, driver_name |-> "Eli", partner_company |-> "FastCo",
             status |-> "Inactive"] >>)}

WarehouseLogTables ==
  {Table({"order_id", "picking_start", "picking_end", "dispatch_time", "notes"},
         << [order_id |-> 1, picking_start |-> 1, picking_end |-> 2, dispatch_time |-> 3,
             notes |-> txt_short_staff],
            [order_id |-> 1, picking_start |-> 2, picking_end |-> 3, dispatch_time |-> 4,
             notes |-> <<>>] >>)}

ExternalFactorTables ==
  {Table({"order_id", "traffic_condition", "weather_condition", "event_type"},
         << [order_id |-> 2, traffic_condition |-> "Heavy", weather_condition |-> "Rain",
             event_type |-> txt_strike] >>)}

\* the second feedback table has an entry without text
FeedbackTables ==
  {Table({"order_id", "feedback_text", "sentiment", "rating"},
         << [order_id |-> 1, feedback_text |-> txt_late, sentiment |-> "negative", rating |-> 2],
            [order_id |-> 1, feedback_text |-> txt_rude, sentiment |-> "negative", rating |-> 5],
            [order_id |-> 2, feedback_text |-> txt_ok, sentiment |-> "positive", rating |-> 4] >>),
   Table({"order_id", "feedback_text", "sentiment", "rating"},
         << [order_id |-> 1, feedback_text |-> Null, sentiment |-> "neutral", rating |-> 3] >>)}

\* the keys of DATA_FILES
SourceNames == {"orders", "fleet_logs", "warehouse_logs", "external_factors", "feedback",
                "warehouses", "clients", "drivers"}

NoData == [k \in SourceNames |-> Absent]

\* what load_all_data can leave in self.data: every file may be missing
LoadableData ==
  {[orders |-> o, fleet_logs |-> fl, warehouse_logs |-> wl, external_factors |-> ef,
    feedback |-> fb, warehouses |-> wh, clients |-> cl, drivers |-> dr] :
      o \in OrderTables \cup {Absent},
      fl \in FleetLogTables \cup {Absent},
      wl \in WarehouseLogTables \cup {Absent},
      ef \in ExternalFactorTables \cup {Absent},
      fb \in FeedbackTables \cup {Absent},
      wh \in WarehouseTables \cup {Absent},
      cl \in ClientTables \cup {Absent},
      dr \in DriverTables \cup {Absent}}

\* filter specifications handed to filter_data
q_MUMBAI == <<"M","U","M","B","A","I">>
q_delhi == <<"d","e","l","h","i">>
q_acme == <<"a","c","m","e">>
q_a_me == <<"a",".","m","e">>
q_north == <<"n","o","r","t","h">>

\* day number of 2024-01-10, as in the filter date '2024-01-10'
Jan10Day == 10 - 1

FilterSpecs ==
  { <<>>,
    [cities |-> <<q_MUMBAI, q_delhi>>],
    [cities |-> <<>>, date_from |-> Jan10Day, date_to |-> Jan10Day],
    [clients |-> <<q_a_me>>],
    [warehouses |-> <<q_north>>],
    [cities |-> <<q_delhi>>, date_from |-> Jan10Day, date_to |-> NoDate,
     clients |-> <<q_acme, Bolt>>] }

ComparisonFields == {"city", "warehouse_name", "region"}

Limits == {1, DefaultLimit}

----------------------------------------------------------------------------
(* Inputs of the query specification *)

TrafficJam == <<"T","r","a","f","f","i","c"," ","j","a","m">>
HeavyWeather == <<"H","e","a","v","y"," ","w","e","a","t","h","e","r">>

Jan11 == (11 - 1) * HoursPerDay

\* day number of 2024-01-11, the day the queries are asked
Jan11Day == 11 - 1

PQ_Order(id, city, client, status, reason, late, placed) ==
  [order_id |-> id, client_id |-> client, city |-> city, order_date |-> placed,
   promised_delivery_date |-> Jan10,
   actual_delivery_date |-> IF status \in {"Failed", "Pending"} THEN NaN
                            ELSE Jan10 + late * HoursPerDay,
   status |-> status, failure_reason |-> reason, amount |-> 10 * id]

\* thirteen orders with six root causes among the ten problem orders:
\* three traffic, two weather, two 'Stock out', and one each of address,
\* return and pending; every city has an order delivered on time
BusyWeek ==
  Table(OrderCols,
    << PQ_Order(1, Delhi, 1, "Delivered", TrafficJam, 3, Jan10),
       PQ_Order(2, Delhi, 2, "Delivered", TrafficJam, 1, Jan10 + 9),
       PQ_Order(3, Delhi, 3, "Delivered", TrafficJam, 6, Jan10),
       PQ_Order(4, Delhi, 1, "Delivered", HeavyWeather, 2, Jan10 + 9),
       PQ_Order(5, Delhi, 2, "Delivered", HeavyWeather, 4, Jan10),
       PQ_Order(6, Mumbai, 1, "Failed", StockOut, 0, Jan10),
       PQ_Order(7, Mumbai, 2, "Failed", StockOut, 0, Jan10 + 9),
       PQ_Order(8, Mumbai, 3, "Delivered", WrongADDRESS, 1, Jan10),
       PQ_Order(9, Pune, 1, "Returned", Refused, 0, Jan11),
       PQ_Order(10, Pune, 2, "Pending", Null, 0, Jan11),
       PQ_Order(11, Delhi, 3, "Delivered", Null, 0, Jan11),
       PQ_Order(12, Mumbai, 1, "Delivered", Null, 0, Jan10),
       PQ_Order(13, Pune, 2, "Delivered", Null, 0, Jan11 + 9) >>)

\* one failed, one late and one early order
QuietWeek == Table(OrderCols, <<OrderRow(1, "failed"), OrderRow(2, "late"), OrderRow(3, "early")>>)

\* a single order delivered early
GoodDay == Table(OrderCols, <<OrderRow(1, "early")>>)

PQ_OrderTables == {BusyWeek, QuietWeek, GoodDay}

\* every client once; client 3 is not listed
PQ_ClientTables ==
  {Table({"client_id", "client_name", "contact_person"},
         << [client_id |-> 1, client_name |-> Acme, contact_person |-> "Ann"],
            [client_id |-> 2, client_name |-> Bolt, contact_person |-> "Bob"] >>)}

PQ_FeedbackTables == {t \in FeedbackTables : ~feedback_summary_raises(t)}

PQ_Data ==
  {[NoData EXCEPT !.orders = o, !.feedback = fb, !.clients = cl, !.warehouses = wh] :
      o \in PQ_OrderTables,
      fb \in PQ_FeedbackTables \cup {Absent},
      cl \in PQ_ClientTables \cup {Absent},
      wh \in WarehouseTables \cup {Absent}}

Queries ==
  { <<"W","h","y"," ","D","e","l","h","i">>,
    <<"c","o","m","p","a","r","e"," ","m","u","m","b","a","i"," ","a","n","d"," ","d","e","l","h","i">>,
    <<"c","o","m","p","a","r","e"," ","w","a","r","e","h","o","u","s","e","s">>,
    <<"c","o","m","p","a","r","e"," ","d","e","l","h","i">>,
    <<"t","o","p"," ","i","s","s","u","e","s">>,
    <<"t","o","p"," ","i","s","s","u","e","s"," ","f","o","r"," ","c","l","i","e","n","t"," ","a","c","m","e">>,
    <<"s","t","a","t","u","s"," ","y","e","s","t","e","r","d","a","y">>,
    <<"p","r","e","d","i","c","t"," ","p","u","n","e">> }

Fails(a) == <<a, a, a>>
Succeeds == <<Response(200)>>

JsonCompletion ==
  [kind |-> "json", intent |-> "rank", cities |-> <<Delhi>>, clients |-> <<>>,
   warehouses |-> <<>>]
TextCompletion == [kind |-> "text"]

\* the server during one process_query: its answers to the attempts of the
\* parsing call, the recommendation call and the summary call, and what a
\* completion holds
Env(p, r, sm, c) == [parse |-> p, recs |-> r, summary |-> sm, completion |-> c]

Environments ==
  {Env(f, f, f, TextCompletion) :
     f \in {Fails(Response(500)), Fails(Response(429)), Fails(RequestException),
            <<Response(429), RequestException, Response(401)>>}}
  \cup
  { Env(Succeeds, Succeeds, Succeeds, JsonCompletion),
    Env(<<Response(429), Response(200)>>, Fails(Response(500)), Succeeds, JsonCompletion),
    Env(Succeeds, Fails(RequestException), Fails(Response(429)), TextCompletion),
    Env(Fails(Response(500)), Succeeds, Fails(Response(500)), TextCompletion) }

----------------------------------------------------------------------------
(* Inputs of the feature-engine specification *)



FE_Statuses == {"Delivered", "Failed", "Returned", "Pending", "In Transit"}
FE_Reasons == {Null, StockOut, WeatherDelay, Refused, VehicleDelay, WrongADDRESS,
               TrafficInBadWeather}
FE_Promised == {NaN, BadDate, Jan10}
FE_Actual == {NaN, BadDate}
             \cup {Jan10 + k * HoursPerDay - h : k \in (0 - 1)..MaxLateDays, h \in {0, 6}}
FE_OrderDates == {NaN, Jan10 + 9}

FE_Order(st, fr, pr, ac, od) ==
  [order_id |-> 1, status |-> st, failure_reason |-> fr, promised_delivery_date |-> pr,
   actual_delivery_date |-> ac, order_date |-> od]

FE_Cols == {"order_id", "status", "failure_reason", "promised_delivery_date",
            "actual_delivery_date", "order_date"}

\* a row without its status column (a table whose status was lost in a join)
DropCol(r, c) == [k \in (DOMAIN r) \ {c} |-> r[k]]

FE_Tables ==
  {[cols |-> FE_Cols, rows |-> <<FE_Order(st, fr, pr, ac, od)>>, loaded |-> TRUE] :
      st \in FE_Statuses, fr \in FE_Reasons, pr \in FE_Promised, ac \in FE_Actual,
      od \in FE_OrderDates}
  \cup
  {[cols |-> FE_Cols \ {"status"},
    rows |-> <<DropCol(FE_Order("Delivered", fr, pr, ac, od), "status")>>, loaded |-> TRUE] :
      fr \in FE_Reasons, pr \in FE_Promised, ac \in FE_Actual, od \in FE_OrderDates}

NoResult == [kind |-> "none"]

\* no call of call_perplexity_api is in progress
NoCall == [kind |-> "none"]


----------------------------------------------------------------------------
(* Specification of the feature engine on one table *)

FE_Init ==
  /\ \E t \in FE_Tables : data = [NoData EXCEPT !.orders = t]
  /\ df = Absent
  /\ pc = "fe_raw"
  /\ runs = 0
  /\ first_df = Absent
  /\ integrated_df = Absent
  /\ filtered = NoResult
  /\ result = NoResult
  /\ use_perplexity = FALSE
  /\ http = NoCall
  /\ grouped = {}

\* create_integrated_dataset, lines 95-102, with no secondary source
FE_ParseDates ==
  /\ pc = "fe_raw"
  /\ df' = parse_dates(data.orders)
  /\ pc' = "fe_parsed"
  /\ UNCHANGED <<data, integrated_df, filtered, result, runs, first_df>>
  /\ UNCHANGED ext_vars

\* add_root_cause_features(df), in place
FE_AddFeatures ==
  /\ pc = "fe_parsed"
  /\ runs < MaxRuns
  /\ df' = add_root_cause_features(df)
  /\ runs' = runs + 1
  /\ first_df' = IF runs = 0 THEN df' ELSE first_df
  /\ UNCHANGED <<data, integrated_df, filtered, result, pc>>
  /\ UNCHANGED ext_vars

FE_Next == FE_ParseDates \/ FE_AddFeatures

SpecFE == FE_Init /\ [][FE_Next]_vars

----------------------------------------------------------------------------
(* Specification of one call of call_perplexity_api *)

\* the answers the server can give to one attempt
Answers == {Response(200), Response(429), Response(500), Response(401), RequestException}

API_Init ==
  /\ use_perplexity \in BOOLEAN
  /\ http = NoCall
  /\ data = NoData
  /\ integrated_df = Absent
  /\ pc = "api"
  /\ filtered = NoResult
  /\ result = NoResult
  /\ df = Absent
  /\ runs = 0
  /\ first_df = Absent
  /\ grouped = {}

\* call_perplexity_api(prompt, max_retries) is entered
CallPerplexityApi ==
  /\ pc = "api"
  /\ http.kind = "none"
  /\ \E m \in 0..MaxAttempts : http' = api_enter(use_perplexity, m)
  /\ UNCHANGED <<data, integrated_df, pc, filtered, result, df, runs, first_df,
                 use_perplexity, grouped>>

\* one attempt: requests.post answers and the loop body handles the answer
HttpAttempt ==
  /\ pc = "api"
  /\ http.kind = "calling"
  /\ \E a \in Answers : http' = api_attempt(http, a)
  /\ UNCHANGED <<data, integrated_df, pc, filtered, result, df, runs, first_df,
                 use_perplexity, grouped>>

API_Next == CallPerplexityApi \/ HttpAttempt

SpecAPI == API_Init /\ [][API_Next]_vars

----------------------------------------------------------------------------
(* Specification of the ranking step of compare_performance on a grouped    *)
(* frame: groups of a few orders next to groups of thousands                *)

\* (delayed_orders, total_orders) of a group
GroupCounts ==
  { <<0, 1>>, <<1, 1>>, <<1, 2>>, <<1, 3>>, <<2, 3>>,
    <<MaxGroupSize \div 3, MaxGroupSize>>, <<MaxGroupSize \div 2, MaxGroupSize - 1>> }

GroupEntry(v, c) ==
  [value |-> v, total_orders |-> c[2], delayed_orders |-> c[1], avg_delay_days |-> 0,
   total_revenue |-> 0, avg_rating |-> NaN]

\* the frames lines 474-482 can hand to the ranking step
GroupedFrames ==
  {{GroupEntry(Delhi, a), GroupEntry(Mumbai, b), GroupEntry(Pune, c)} :
     a \in GroupCounts, b \in GroupCounts, c \in GroupCounts}

CMP_Init ==
  /\ grouped \in GroupedFrames
  /\ pc = "grouped"
  /\ result = NoResult
  /\ data = NoData
  /\ integrated_df = Absent
  /\ filtered = NoResult
  /\ df = Absent
  /\ runs = 0
  /\ first_df = Absent
  /\ use_perplexity = FALSE
  /\ http = NoCall

\* compare_performance from line 483 on
RankComparison ==
  /\ pc = "grouped"
  /\ \E q \in rank_by_delay_rate(grouped) :
       result' = [kind |-> "comparison", field |-> "city", entries |-> q]
  /\ pc' = "ranked"
  /\ UNCHANGED <<data, integrated_df, filtered, df, runs, first_df,
                 use_perplexity, http, grouped>>

CMP_Next == RankComparison

SpecCmp == CMP_Init /\ [][CMP_Next]_vars

----------------------------------------------------------------------------
(* Specification of the analyzer: load, integrate once, then queries *)

\* __init__, lines 62-63
Init ==
  /\ data = NoData
  /\ integrated_df = Absent
  /\ pc = "new"
  /\ filtered = NoResult
  /\ result = NoResult
  /\ df = Absent
  /\ runs = 0
  /\ first_df = Absent
  /\ use_perplexity = FALSE
  /\ http = NoCall
  /\ grouped = {}

\* load_all_data: each file is read or skipped
load_all_data ==
  /\ pc = "new"
  /\ \E d \in LoadableData : data' = d
  /\ pc' = "loaded"
  /\ UNCHANGED <<integrated_df, filtered, result, df, runs, first_df>>
  /\ UNCHANGED ext_vars

\* create_integrated_dataset, called by __init__
CreateIntegratedDataset ==
  /\ pc = "loaded"
  /\ LET r == create_integrated_dataset(data)
     IN IF r.kind = "ok"
        THEN /\ integrated_df' = r.df
             /\ pc' = "ready"
             /\ result' = result
        ELSE /\ integrated_df' = integrated_df
             /\ pc' = "raised"
             /\ result' = [kind |-> "raise", error |-> r.error]
  /\ UNCHANGED <<data, filtered, df, runs, first_df>>
  /\ UNCHANGED ext_vars

\* filter_data(filters)
FilterData ==
  /\ pc = "ready"
  /\ \E f \in FilterSpecs :
       /\ filtered' = filter_data(integrated_df, f) @@ [filters |-> f]
       /\ integrated_df' = integrated_df_after_filter(integrated_df, f)
  /\ result' = NoResult
  /\ UNCHANGED <<data, pc, df, runs, first_df>>
  /\ UNCHANGED ext_vars

\* explain_delivery_causes(filtered_df, limit)
ExplainDeliveryCauses ==
  /\ pc = "ready"
  /\ filtered.kind = "table"
  /\ \E limit \in Limits : \E r \in explain_delivery_causes(filtered.df, limit) :
       result' = r @@ [call |-> "explain", limit |-> limit]
  /\ UNCHANGED <<data, integrated_df, pc, filtered, df, runs, first_df>>
  /\ UNCHANGED ext_vars

\* compare_performance(filtered_df, comparison_field)
ComparePerformance ==
  /\ pc = "ready"
  /\ filtered.kind = "table"
  /\ \E field \in ComparisonFields : \E r \in compare_performance(filtered.df, field) :
       result' = r @@ [call |-> "compare", field |-> field]
  /\ UNCHANGED <<data, integrated_df, pc, filtered, df, runs, first_df>>
  /\ UNCHANGED ext_vars

Next ==
  \/ load_all_data
  \/ CreateIntegratedDataset
  \/ FilterData
  \/ ExplainDeliveryCauses
  \/ ComparePerformance

Spec == Init /\ [][Next]_vars

----------------------------------------------------------------------------
(* Specification of the analyzer answering queries through process_query *)

\* __init__ after lines 62-70: the flag is set and the files are loaded
PQ_Init ==
  /\ use_perplexity \in BOOLEAN
  /\ data \in PQ_Data
  /\ integrated_df = Absent
  /\ pc = "loaded"
  /\ filtered = NoResult
  /\ result = NoResult
  /\ df = Absent
  /\ runs = 0
  /\ first_df = Absent
  /\ http = NoCall
  /\ grouped = {}

\* process_query(query); a query leaves the analyzer as it found it, so the
\* behaviours end with the first answer
ProcessQuery ==
  /\ pc = "ready"
  /\ pc' = "answered"
  /\ \E query \in Queries : \E env \in Environments :
       \E r \in process_query(integrated_df, use_perplexity, query, env, Jan11Day) :
         result' = r @@ [call |-> "process_query", query |-> query, env |-> env,
                         today |-> Jan11Day]
  /\ UNCHANGED <<data, integrated_df, filtered, df, runs, first_df,
                 use_perplexity, http, grouped>>

PQ_Next == CreateIntegratedDataset \/ ProcessQuery

SpecPQ == PQ_Init /\ [][PQ_Next]_vars

----------------------------------------------------------------------------
(* Properties of the analyzer, checked under Spec *)

\* the orders as create_integrated_dataset sees them after parsing the dates
ParsedOrders == parse_dates(data.orders).rows

\* C1: the integrated set has exactly one record per input order, whatever
\* secondary sources are present and however many rows they hold per key.
C1_RowCount ==
  pc = "ready" =>
    /\ Len(integrated_df.rows) = Len(data.orders.rows)
    /\ \A i \in DOMAIN data.orders.rows :
         Cardinality({j \in DOMAIN integrated_df.rows :
                        integrated_df.rows[j]["order_id"] = data.orders.rows[i]["order_id"]}) = 1

\* C2: every integrated record carries the fields of its order with the
\* order's values; in particular its status is the order's status.
C2_OrderFieldsKept ==
  pc = "ready" =>
    /\ OrderCols \subseteq integrated_df.cols
    /\ \A j \in DOMAIN integrated_df.rows :
         \E i \in DOMAIN ParsedOrders :
           \A c \in OrderCols : integrated_df.rows[j][c] = ParsedOrders[i][c]

\* C3: create_integrated_dataset raises only when the orders are missing,
\* and with the orders present no query raises, whatever secondary sources
\* are present.
C3_OnlyMissingOrdersFatal ==
  /\ pc = "raised" => ~data.orders.loaded
  /\ pc \in {"ready", "raised"} /\ ~data.orders.loaded => pc = "raised"
  /\ pc = "ready" => filtered.kind # "raise" /\ result.kind # "raise"

\* the criteria of a filter specification, read as the specification states
\* them: plain case-insensitive containment, all supplied keys at once
SatisfiesFilter(t, r, f) ==
  /\ HasFilter(f, "cities") =>
       /\ r["city"] # Null
       /\ \E i \in DOMAIN f["cities"] : str_lower(r["city"]) = str_lower(f["cities"][i])
  /\ HasFilter(f, "date_from") =>
       r["order_date"] # NaT /\ r["order_date"] >= f["date_from"] * HoursPerDay
  /\ HasFilter(f, "date_to") =>
       r["order_date"] # NaT /\ r["order_date"] <= f["date_to"] * HoursPerDay
  /\ HasFilter(f, "clients") =>
       /\ "client_name" \in t.cols
       /\ \E i \in DOMAIN f["clients"] : HasSubstring(r["client_name"], f["clients"][i], TRUE)
  /\ HasFilter(f, "warehouses") =>
       /\ "warehouse_name" \in t.cols
       /\ \E i \in DOMAIN f["warehouses"] :
            HasSubstring(r["warehouse_name"], f["warehouses"][i], TRUE)

\* C9: the table filter_data returns holds exactly the integrated records
\* that satisfy every supplied criterion, in their order; the empty
\* specification returns all of them.
C9_FilterExact ==
  (pc = "ready" /\ filtered.kind = "table") =>
    /\ filtered.df.cols = integrated_df.cols
    /\ filtered.df.rows =
         SelectSeq(integrated_df.rows,
                   LAMBDA r : SatisfiesFilter(integrated_df, r, filtered.filters))

\* C10: once the integrated set is built, no query changes it.
C10_QueriesReadOnly == [][pc = "ready" => integrated_df' = integrated_df]_vars

\* a filter that dropped records was followed by an analysis
C10_Witness ==
  /\ pc = "ready"
  /\ filtered.kind = "table"
  /\ Len(filtered.df.rows) < Len(integrated_df.rows)
  /\ result.kind \in {"breakdown", "comparison"}

\* a record explain_delivery_causes counts as a problem
IsProblemRecord(r) == r["is_delayed"] = TRUE \/ r["status"] \in {"Failed", "Returned"}

HasProblemRecord(t) == \E i \in DOMAIN t.rows : IsProblemRecord(t.rows[i])

\* C11: explain_delivery_causes returns the 'no issues found' message
\* exactly when its input has no problem record, and then neither raises
\* nor returns a breakdown; with a problem record it returns a breakdown
\* that lists at least one cause.
C11_NoIssuesMessage ==
  (pc = "ready" /\ result.kind # "none" /\ result.call = "explain") =>
    IF HasProblemRecord(filtered.df)
    THEN result.kind = "breakdown" /\ Len(result.root_cause_analysis) >= 1
    ELSE result.kind = "message"

\* C13: compare_performance on a field that is not a column returns an
\* error result that names the field and raises nothing; on a field that is
\* a column it never returns an error result.
C13_MissingDimension ==
  (pc = "ready" /\ result.kind # "none" /\ result.call = "compare") =>
    /\ result.field \notin filtered.df.cols => result = [kind |-> "error", field |-> result.field,
                                                         call |-> "compare"]
    /\ result.kind = "error" => result.field \notin filtered.df.cols

\* records grouped by 'region', a column no source has
C13_Witness ==
  /\ pc = "ready"
  /\ filtered.kind = "table"
  /\ Len(filtered.df.rows) > 0
  /\ result.kind = "error"
  /\ result.call = "compare"
  /\ result.field = "region"
  /\ "region" \notin filtered.df.cols

\* the rows of a source table that belong to order k, in table order
RowsOfOrder(src, k) == SelectSeq(src.rows, LAMBDA r : r["order_id"] = k)

\* the scalar fields each multi-row source contributes
ScalarFields ==
  [fleet_logs |-> {"driver_id", "vehicle_number", "route_code", "departure_time",
                   "arrival_time"},
   warehouse_logs |-> {"picking_start", "picking_end", "dispatch_time"},
   external_factors |-> {"traffic_condition", "weather_condition"},
   feedback |-> {"sentiment"}]

\* the joined note fields each multi-row source contributes
NoteFields ==
  [fleet_logs |-> {"gps_delay_notes"}, warehouse_logs |-> {"notes"},
   external_factors |-> {}, feedback |-> {}]

\* the notes of the rows g that are neither null nor empty, comma-joined
JoinedNotes(g, c) ==
  LET kept == SelectSeq(g, LAMBDA r : r[c] # Null /\ r[c] # <<>>)
  IN IF \A i \in DOMAIN g : g[i][c] = Null THEN Null
     ELSE str_join(<<",", " ">>, [i \in DOMAIN kept |-> kept[i][c]])

\* every scalar field is the one of the order's first source row
C18_ScalarsFromFirstRow ==
  \A s \in DOMAIN ScalarFields : data[s].loaded =>
    \A j \in DOMAIN integrated_df.rows :
      LET g == RowsOfOrder(data[s], integrated_df.rows[j]["order_id"])
      IN Len(g) >= 1 =>
           \A c \in ScalarFields[s] : integrated_df.rows[j][c] = g[1][c]

\* every note field is the join of the order's notes
C18_NotesJoined ==
  \A s \in DOMAIN NoteFields : data[s].loaded =>
    \A j \in DOMAIN integrated_df.rows :
      LET g == RowsOfOrder(data[s], integrated_df.rows[j]["order_id"])
      IN Len(g) >= 1 =>
           \A c \in NoteFields[s] : integrated_df.rows[j][c] = JoinedNotes(g, c)

\* rating is the mean and feedback_text the join of the order's feedback
C18_FeedbackReduced ==
  data.feedback.loaded =>
    \A j \in DOMAIN integrated_df.rows :
      LET g == RowsOfOrder(data.feedback, integrated_df.rows[j]["order_id"])
      IN Len(g) >= 1 =>
           /\ integrated_df.rows[j]["rating"].den # 0
           /\ integrated_df.rows[j]["rating"].num * Len(g)
                = SumCol(g, "rating") * integrated_df.rows[j]["rating"].den
           /\ integrated_df.rows[j]["feedback_text"]
                = str_join(<<" ", "|", " ">>, [i \in DOMAIN g |-> g[i]["feedback_text"]])

\* C18: the reduction of a multi-row source completes for every input, and
\* for an order with one or more rows it takes each scalar field from the
\* order's first row, joins the non-null non-empty notes with ', ' (null
\* when all are null), takes the mean of the ratings and joins the feedback
\* texts with ' | '.
C18_OneToManyReduction ==
  (pc \in {"ready", "raised"} /\ data.orders.loaded) =>
    /\ pc = "ready"
    /\ C18_ScalarsFromFirstRow
    /\ C18_NotesJoined
    /\ C18_FeedbackReduced

----------------------------------------------------------------------------
(* Properties of the feature engine, checked under SpecFE *)

FE_Derived == pc = "fe_parsed" /\ runs >= 1

\* C4: a record with status Failed has its failure_reason verbatim as root
\* cause ('Unknown Failure' when the reason is null), a Returned record has
\* 'Customer Return', a Pending record 'Processing Delay', whatever keyword
\* the failure_reason contains.
C4_StatusPrecedence ==
  FE_Derived =>
    \A i \in DOMAIN df.rows :
      LET r == df.rows[i]
      IN /\ r["status"] = "Failed" /\ r["failure_reason"] # Null
              => r["primary_root_cause"] = r["failure_reason"]
         /\ r["status"] = "Failed" /\ r["failure_reason"] = Null
              => r["primary_root_cause"] = UnknownFailure
         /\ r["status"] = "Returned" => r["primary_root_cause"] = CustomerReturn
         /\ r["status"] = "Pending" => r["primary_root_cause"] = ProcessingDelay

\* a failed order whose reason 'Stock out' holds the stock keyword
C4_Witness ==
  /\ FE_Derived
  /\ \E i \in DOMAIN df.rows :
       /\ df.rows[i]["status"] = "Failed"
       /\ df.rows[i]["failure_reason"] = StockOut
       /\ str_contains(df.rows[i]["failure_reason"], pat_Stock)
       /\ df.rows[i]["primary_root_cause"] = StockOut

\* C5: severity is Critical exactly when status is Failed; otherwise High
\* when the delay exceeds 5 days, Medium when it is in 3..5, Low when it is
\* at most 2.
C5_SeverityTiers ==
  FE_Derived =>
    \A i \in DOMAIN df.rows :
      LET r == df.rows[i]
          d == r["delivery_delay_days"]
      IN /\ r["severity"] \in {"Low", "Medium", "High", "Critical"}
         /\ r["severity"] = "Critical" <=> r["status"] = "Failed"
         /\ r["status"] # "Failed" =>
              /\ r["severity"] = "High" <=> d > 5
              /\ r["severity"] = "Medium" <=> (2 < d /\ d <= 5)
              /\ r["severity"] = "Low" <=> d <= 2

\* a failed order that is 6 days late is Critical
C5_Witness ==
  /\ FE_Derived
  /\ \E i \in DOMAIN df.rows :
       /\ df.rows[i]["status"] = "Failed"
       /\ df.rows[i]["delivery_delay_days"] = 6
       /\ df.rows[i]["severity"] = "Critical"

\* C6: delivery_delay_days is the whole number of days of actual minus
\* promised when both raw dates are dates, and 0 when either is missing or
\* unparsable.
C6_DelayDays ==
  FE_Derived =>
    \A i \in DOMAIN df.rows :
      LET raw == data.orders.rows[i]
          a == raw["actual_delivery_date"]
          p == raw["promised_delivery_date"]
          d == df.rows[i]["delivery_delay_days"]
      IN IF a >= 0 /\ p >= 0
         THEN d * HoursPerDay <= a - p /\ a - p < (d + 1) * HoursPerDay
         ELSE d = 0

\* promised 2024-01-10, actual 2024-01-13 gives 3
C6_Witness ==
  /\ FE_Derived
  /\ \E i \in DOMAIN df.rows :
       /\ data.orders.rows[i]["promised_delivery_date"] = Jan10
       /\ data.orders.rows[i]["actual_delivery_date"] = Jan13
       /\ df.rows[i]["delivery_delay_days"] = 3

\* C7: is_delayed holds exactly when the delay is positive or the status is
\* Failed, Returned or Pending; with a missing actual date it is decided by
\* the status alone.
C7_IsDelayed ==
  FE_Derived =>
    \A i \in DOMAIN df.rows :
      LET r == df.rows[i]
      IN /\ r["is_delayed"] <=>
              (r["delivery_delay_days"] > 0 \/ r["status"] \in {"Failed", "Returned", "Pending"})
         /\ r["actual_delivery_date"] = NaT =>
              (r["is_delayed"] <=> r["status"] \in {"Failed", "Returned", "Pending"})

\* a pending order without an actual delivery date is delayed
C7_Witness ==
  /\ FE_Derived
  /\ \E i \in DOMAIN df.rows :
       /\ df.rows[i]["actual_delivery_date"] = NaT
       /\ df.rows[i]["status"] = "Pending"
       /\ df.rows[i]["is_delayed"]

\* C8: a second run of the feature engine on a table it already derived
\* leaves the derived columns and the row count as the first run left them.
C8_Idempotent ==
  (pc = "fe_parsed" /\ runs >= 2) =>
    /\ Len(df.rows) = Len(first_df.rows)
    /\ df.cols = first_df.cols
    /\ \A i \in DOMAIN df.rows :
         \A c \in DerivedCols : df.rows[i][c] = first_df.rows[i][c]

\* the second run happened on a late order
C8_Witness ==
  /\ pc = "fe_parsed"
  /\ runs = 2
  /\ \E i \in DOMAIN df.rows :
       df.rows[i]["delivery_delay_days"] > 0 /\ df.rows[i]["primary_root_cause"] # OtherUnknown

\* the keywords of the six rules as the specification lists them, in order
RuleKeywords ==
  << [words |-> {<<"t","r","a","f","f","i","c">>, <<"c","o","n","g","e","s","t","i","o","n">>}, label |-> TrafficCongestion],
     [words |-> {<<"w","e","a","t","h","e","r">>, <<"d","i","s","r","u","p","t","i","o","n">>}, label |-> WeatherDisruption],
     [words |-> {<<"w","a","r","e","h","o","u","s","e">>, <<"d","e","l","a","y">>}, label |-> WarehouseOperations],
     [words |-> {<<"a","d","d","r","e","s","s">>}, label |-> AddressIssues],
     [words |-> {<<"s","t","o","c","k">>}, label |-> StockUnavailability],
     [words |-> {<<"v","e","h","i","c","l","e">>, <<"b","r","e","a","k","d","o","w","n">>}, label |-> VehicleIssues] >>

\* the rules one of whose keywords occurs in the reason, whatever the case
RulesThatMatch(reason) ==
  {k \in DOMAIN RuleKeywords :
     \E w \in RuleKeywords[k].words : HasSubstring(reason, w, TRUE)}

\* C17: a record whose status is none of Failed, Returned, Pending has as
\* root cause the label of the last rule, in the order traffic, weather,
\* warehouse, address, stock, vehicle, one of whose keywords occurs in its
\* failure_reason whatever the case, and 'Other/Unknown' when the reason is
\* null or holds no keyword.
C17_LastRuleWins ==
  FE_Derived =>
    \A i \in DOMAIN df.rows :
      LET r == df.rows[i]
          m == RulesThatMatch(r["failure_reason"])
      IN r["status"] \notin {"Failed", "Returned", "Pending"} =>
           r["primary_root_cause"] =
             IF m = {} THEN OtherUnknown
             ELSE RuleKeywords[CHOOSE k \in m : \A j \in m : j <= k].label

\* 'Vehicle delay' holds a keyword of the warehouse rule and one of the
\* vehicle rule, and the later rule decides
C17_Witness ==
  /\ FE_Derived
  /\ \E i \in DOMAIN df.rows :
       /\ df.rows[i]["status"] = "Delivered"
       /\ df.rows[i]["failure_reason"] = VehicleDelay
       /\ RulesThatMatch(VehicleDelay) = {3, 6}
       /\ df.rows[i]["primary_root_cause"] = VehicleIssues

\* C19: a table that reaches the feature engine without a status column is
\* processed all the same: every record gets status 'Unknown', is delayed
\* exactly when its delay is positive, is never Critical, and never has the
\* root cause 'Unknown Failure', 'Customer Return' or 'Processing Delay'.
C19_StatusDefault ==
  (FE_Derived /\ "status" \notin data.orders.cols) =>
    /\ "status" \in df.cols
    /\ \A i \in DOMAIN df.rows :
         LET r == df.rows[i]
         IN /\ r["status"] = "Unknown"
            /\ r["is_delayed"] <=> r["delivery_delay_days"] > 0
            /\ r["severity"] # "Critical"
            /\ r["primary_root_cause"] \notin {UnknownFailure, CustomerReturn, ProcessingDelay}

\* an order without status that arrived six days late
C19_Witness ==
  /\ FE_Derived
  /\ "status" \notin data.orders.cols
  /\ \E i \in DOMAIN df.rows :
       /\ df.rows[i]["status"] = "Unknown"
       /\ df.rows[i]["delivery_delay_days"] = 6
       /\ df.rows[i]["is_delayed"]
       /\ df.rows[i]["severity"] = "High"

----------------------------------------------------------------------------
(* Properties of call_perplexity_api, checked under SpecAPI *)

Retried(answer) == answer.kind = "exception" \/ answer.status = 429

----------------------------------------------------------------------------
(* Properties of the ranking step, checked under SpecCmp *)

\* group a has a strictly higher unrounded delay rate than group b
HigherRate(a, b) == a.delayed_orders * b.total_orders > b.delayed_orders * a.total_orders

\* C15: a group with a strictly higher unrounded delay rate is listed
\* before every group with a lower one: rounding to two decimals never
\* decides the order.
C15_RoundingKeepsOrder ==
  pc = "ranked" =>
    \A i, j \in DOMAIN result.entries :
      HigherRate(result.entries[i], result.entries[j]) => i < j

----------------------------------------------------------------------------
(* Properties of process_query, checked under SpecPQ *)

\* a query was answered with a response
Answered == pc = "answered" /\ result.kind = "response"

\* the records the analysis of the answered query worked on
AnalysedRows == filter_data(integrated_df, result.filters_applied).df.rows

\* the number of problem records that carry root cause c
ProblemCount(c) ==
  Cardinality({i \in DOMAIN AnalysedRows :
                 IsProblemRecord(AnalysedRows[i]) /\ AnalysedRows[i]["primary_root_cause"] = c})

ProblemCauses ==
  {AnalysedRows[i]["primary_root_cause"] :
     i \in {k \in DOMAIN AnalysedRows : IsProblemRecord(AnalysedRows[k])}}

\* the limit the intent of the answered query selects
LimitInForce == IF result.analysis_type = "rank" THEN RankLimit ELSE DefaultLimit

\* C12: a root-cause breakdown lists at most `limit` causes (5 for the rank
\* intent, 10 otherwise), each once and with the number of problem records
\* that carry it, in non-increasing order of that number; no cause left out
\* has a higher number than a cause listed, and the list is a prefix of a
\* list explain_delivery_causes returns for the same records with the
\* default limit.
C12_TopCauses ==
  (Answered /\ result.results.kind = "breakdown") =>
    LET rca == result.results.root_cause_analysis
        listed == {rca[i].cause : i \in DOMAIN rca}
    IN /\ Len(rca) <= LimitInForce
       /\ Len(rca) >= 1
       /\ listed \subseteq ProblemCauses
       /\ \A i \in DOMAIN rca : rca[i].failure_count = ProblemCount(rca[i].cause)
       /\ \A i, j \in DOMAIN rca :
            i < j => rca[i].failure_count >= rca[j].failure_count /\ rca[i].cause # rca[j].cause
       /\ \A c \in ProblemCauses \ listed :
            /\ Len(rca) = LimitInForce
            /\ \A i \in DOMAIN rca : ProblemCount(c) <= rca[i].failure_count
       /\ \E full \in explain_delivery_causes([cols |-> integrated_df.cols,
                                                rows |-> AnalysedRows, loaded |-> TRUE],
                                               DefaultLimit) :
            /\ Len(full.root_cause_analysis) >= Len(rca)
            /\ rca = SubSeq(full.root_cause_analysis, 1, Len(rca))

\* a rank query over six causes: five are listed, the one left out and the
\* last one listed both have one record
C12_Witness ==
  /\ Answered
  /\ result.analysis_type = "rank"
  /\ result.results.kind = "breakdown"
  /\ Cardinality(ProblemCauses) = 6
  /\ Len(result.results.root_cause_analysis) = RankLimit
  /\ result.results.root_cause_analysis[1].failure_count = 3
  /\ result.results.root_cause_analysis[RankLimit].failure_count = 1

\* the records of the analysed set whose dimension has value v
GroupOf(field, v) == SelectSeq(AnalysedRows, LAMBDA r : r[field] = v)

AllCallsFail(env) ==
  \A c \in {env.parse, env.recs, env.summary} :
    call_perplexity_api(TRUE, c, DefaultMaxRetries).value = ApiNone

\* the part of a response the integration must not change when it fails
CoreOf(r) == <<r.analysis_type, r.filters_applied, r.results, r.recommendations>>

\* C16: with the integration enabled and every API call failing,
\* process_query completes whenever it completes with the integration
\* disabled, and its analysis_type, filters_applied, results and
\* recommendations are those of a response the disabled analyzer gives to
\* the same query on the same data.
C16_FailedAiIsNoAi ==
  (pc = "answered" /\ use_perplexity /\ AllCallsFail(result.env)) =>
    LET off == process_query(integrated_df, FALSE, result.query, result.env, result.today)
    IN (\E r \in off : r.kind = "response") =>
         /\ result.kind = "response"
         /\ \E r \in off : r.kind = "response" /\ CoreOf(r) = CoreOf(result)

----------------------------------------------------------------------------
(* Properties of compare_performance as a partition, checked under Spec *)

\* the records of the compared table whose is_delayed flag is set
DelayedRecords(t) == CountIf(t.rows, LAMBDA r : r["is_delayed"] = TRUE)

\* C21: compare_performance counts every input record in exactly one
\* group: the total_orders of the returned groups sum to the number of
\* input records and the delayed_orders to the number of delayed input
\* records, records with a null dimension value included.
C21_GroupsPartitionInput ==
  (pc = "ready" /\ result.kind = "comparison" /\ result.call = "compare") =>
    /\ SumCol(result.entries, "total_orders") = Len(filtered.df.rows)
    /\ SumCol(result.entries, "delayed_orders") = DelayedRecords(filtered.df)

----------------------------------------------------------------------------
(* Properties of the date bounds of filter_data, checked under Spec *)

\* the filter bounds order_date by one and the same day on both sides and
\* sets no other criterion
SingleDayFilter(f) ==
  /\ HasFilter(f, "date_from") /\ HasFilter(f, "date_to")
  /\ f["date_from"] = f["date_to"]
  /\ ~HasFilter(f, "cities") /\ ~HasFilter(f, "clients") /\ ~HasFilter(f, "warehouses")

\* the record was ordered on calendar day d, at whatever time of day
OrderedOnDay(r, d) == r["order_date"] # NaT /\ r["order_date"] \div HoursPerDay = d

\* C22: with date_from = date_to = D filter_data returns every record
\* whose order_date falls on calendar day D, whatever its time of day,
\* and no record of another day.
C22_WholeDayBounds ==
  (pc = "ready" /\ filtered.kind = "table" /\ SingleDayFilter(filtered.filters)) =>
    filtered.df.rows =
      SelectSeq(integrated_df.rows,
                LAMBDA r : OrderedOnDay(r, filtered.filters["date_from"]))

====
